---- MODULE Spec2Model ----
(***************************************************************************)
(* A model of the client-side integrations of src/index.tsx:               *)
(*   AIChat   - the assistant chat session (transcript, pending flag),     *)
(*   Projects - the repository gallery loader (fetch, filter, shuffle),    *)
(*   Contact  - the contact form relay (submit, response, reset).          *)
(* The components share no state; each has its own specification, in       *)
(* which the variables of the other components keep their initial values.  *)
(*                                                                         *)
(* A string is a sequence of one-character strings, so that trim,          *)
(* includes and replace are computed character by character.  An optional  *)
(* value (string | null | undefined) is a set with at most one element.    *)
(***************************************************************************)
EXTENDS Naturals, Sequences, FiniteSets

VARIABLES
    \* AIChat
    isOpen,       \* useState(false), line 89
    messages,     \* useState<Message[]>([seed]), lines 90-92
    input,        \* useState(''), line 93
    isTyping,     \* useState(false), line 94
    apiKey,       \* process.env.API_KEY, line 112 (fixed at build time)
    inflight,     \* the generateContent calls awaited at line 129, by prompt
    lastEvent,    \* the handler that ran last
    lastResult,   \* how the generateContent call that settled last ended
    \* Projects
    projects,     \* useState<Project[]>([]), line 410
    loading,      \* useState(true), line 411
    error,        \* useState(''), line 412
    repos,        \* const repos, line 428: the batch response.json() delivered
    settled,      \* what the promise awaited last delivered
    galleryPc,    \* where fetchGitHubProjects stands (lines 415-462)
    fetchCount,   \* the GET requests issued at line 421
    \* Contact
    formState,    \* useState('idle'), line 568
    errorMessage, \* useState(''), line 569
    fields,       \* the values of the inputs of the form, lines 681-707
    relayKey,     \* import.meta.env.VITE_WEB3FORMS_KEY, line 581
    posts,        \* the bag of the POSTs awaited at line 588, by payload
    formEvent,    \* the handler of Contact that ran last
    formResult    \* how the POST that settled last ended

chatVars == <<isOpen, messages, input, isTyping, apiKey, inflight, lastEvent, lastResult>>

galleryVars == <<projects, loading, error, repos, settled, galleryPc, fetchCount>>

contactVars == <<formState, errorMessage, fields, relayKey, posts, formEvent, formResult>>

vars == <<chatVars, galleryVars, contactVars>>

-----------------------------------------------------------------------------
(* Strings *)

WhiteSpace == {" ", "\t", "\n"}

RECURSIVE TrimStart(_)
TrimStart(s) ==
    IF s # <<>> /\ Head(s) \in WhiteSpace THEN TrimStart(Tail(s)) ELSE s

RECURSIVE TrimEnd(_)
TrimEnd(s) ==
    IF s # <<>> /\ s[Len(s)] \in WhiteSpace
    THEN TrimEnd(SubSeq(s, 1, Len(s) - 1))
    ELSE s

\* String.prototype.trim
Trim(s) == TrimEnd(TrimStart(s))

\* JavaScript truthiness of an optional string: present and not ''
Truthy(opt) == \E s \in opt : s # <<>>

Last(s) == s[Len(s)]

IsPrefix(s, t) == Len(s) <= Len(t) /\ SubSeq(t, 1, Len(s)) = s

-----------------------------------------------------------------------------
(* AIChat: literals *)

SeedText ==
  <<"H","i","!"," ","I","'","m"," ","C","H","R","I","S","T","T","e","c","h",
    "'","s"," ","A","I"," ","a","s","s","i","s","t","a","n","t","."," ","A",
    "s","k"," ","m","e"," ","a","n","y","t","h","i","n","g"," ","a","b","o",
    "u","t"," ","m","a","c","h","i","n","e"," ","l","e","a","r","n","i","n",
    "g",","," ","r","o","b","o","t","i","c","s"," ","p","r","o","j","e","c",
    "t","s",","," ","o","r"," ","t","e","c","h"," ","s","t","a","c","k","!">>

GlitchText ==
  <<"I","'","m"," ","h","a","v","i","n","g"," ","a"," ","l","i","t","t","l",
    "e"," ","g","l","i","t","c","h","."," ","C","a","n"," ","y","o","u"," ",
    "t","r","y"," ","a","g","a","i","n","?">>

ConnectionText ==
  <<"C","o","n","n","e","c","t","i","o","n"," ","i","s","s","u","e","s",".",
    " ","A","l","e","x"," ","m","u","s","t"," ","b","e"," ","c","o","d","i",
    "n","g"," ","s","o","m","e","t","h","i","n","g"," ","b","i","g","!">>

Msg(r, t) == [role |-> r, text |-> t]

SeedMessage == Msg("ai", SeedText)

-----------------------------------------------------------------------------
(* AIChat: bounds and inputs *)

\* accepted submits per behaviour
MaxExchanges == 2

Hello == <<"h","e","l","l","o">>

\* values the user leaves in the text box (onChange, line 176)
InputTexts ==
    { <<>>, <<" ">>, <<" ", "\t">>, Hello, <<" ","h","i"," ">> }

\* texts result.response.text() returns
ReplyTexts == { <<>>, <<"o","k">>, <<" ">> }

\* values of process.env.API_KEY: undefined, '' and a key
ApiKeys == { {}, {<<>>}, {<<"k">>} }

\* how an awaited generateContent call ends: the promise rejects, the
\* response is malformed (response.text() throws), or a text is returned
Results ==
    { [kind |-> "reject", text |-> <<>>], [kind |-> "malformed", text |-> <<>>] }
    \cup { [kind |-> "text", text |-> t] : t \in ReplyTexts }

NoResult == [kind |-> "none", text |-> <<>>]

-----------------------------------------------------------------------------
(* AIChat: handleSend, lines 103-138 *)

SendRejectsEmptyOnly(inp, typing) == Trim(inp) = <<>>

SendRejectsUntrimmed(inp, typing) == inp = <<>> \/ typing

\* line 104: if (!input.trim() || isTyping) return;
SendRejects(inp, typing) == Trim(inp) = <<>> \/ typing

KeyNeverMissing(key) == FALSE

\* line 113: if (!apiKey)
KeyMissing(key) == ~Truthy(key)

CatchTwice(msgs) ==
    Append(Append(msgs, Msg("ai", ConnectionText)), Msg("ai", ConnectionText))

\* lines 132-134: the catch block appends the fixed fallback
CatchAppend(msgs) == Append(msgs, Msg("ai", ConnectionText))

ReplyRaw(t) == t

\* line 130: result.response.text() || "I'm having a little glitch. ..."
ReplyText(t) == IF t = <<>> THEN GlitchText ELSE t

ReplyPrepend(msgs, t) == <<Msg("ai", ReplyText(t))>> \o msgs

\* line 131: setMessages(prev => [...prev, { role: 'ai', text: aiResponse }])
ReplyAppend(msgs, t) == Append(msgs, Msg("ai", ReplyText(t)))

FinallyOnSuccessOnly(failed, typing) == IF failed THEN typing ELSE FALSE

\* lines 135-137: finally { setIsTyping(false) }
Finally(failed, typing) == FALSE

\* the synchronous part of handleSend, up to the await at line 129; with no
\* credential the throw at line 114, the catch and the finally run in the
\* same event, so the updates are applied together
HandleSend ==
    /\ isOpen
    /\ lastEvent' = "handleSend"
    /\ IF SendRejects(input, isTyping)
       THEN UNCHANGED <<messages, input, isTyping, inflight>>
       ELSE LET userMsg == Trim(input)
                withUser == Append(messages, Msg("user", userMsg))
            IN  /\ Len(SelectSeq(messages, LAMBDA m : m.role = "user")) < MaxExchanges
                /\ input' = <<>>
                /\ IF KeyMissing(apiKey)
                   THEN /\ messages' = CatchAppend(withUser)
                        /\ isTyping' = Finally(TRUE, TRUE)
                        /\ inflight' = inflight
                   ELSE /\ messages' = withUser
                        /\ isTyping' = TRUE
                        /\ inflight' = Append(inflight, userMsg)
    /\ UNCHANGED <<isOpen, apiKey, lastResult>>

RemoveAt(s, i) == SubSeq(s, 1, i - 1) \o SubSeq(s, i + 1, Len(s))

\* the continuation of handleSend after the await, lines 129-137
GenerateSettles ==
    \E i \in 1..Len(inflight), r \in Results :
        /\ lastEvent' = "settle"
        /\ lastResult' = r
        /\ inflight' = RemoveAt(inflight, i)
        /\ messages' = IF r.kind = "text"
                       THEN ReplyAppend(messages, r.text)
                       ELSE CatchAppend(messages)
        /\ isTyping' = Finally(r.kind # "text", isTyping)
        /\ UNCHANGED <<isOpen, input, apiKey>>

\* line 176: onChange={(e) => setInput(e.target.value)}
SetInput ==
    \E v \in InputTexts :
        /\ isOpen
        /\ input' = v
        /\ lastEvent' = "setInput"
        /\ UNCHANGED <<isOpen, messages, isTyping, apiKey, inflight, lastResult>>

ToggleOpenClearsInput ==
    /\ isOpen' = ~isOpen
    /\ input' = <<>>
    /\ lastEvent' = "toggle"
    /\ UNCHANGED <<messages, isTyping, apiKey, inflight, lastResult>>

\* line 192: onClick={() => setIsOpen(!isOpen)}
ToggleOpen ==
    /\ isOpen' = ~isOpen
    /\ lastEvent' = "toggle"
    /\ UNCHANGED <<messages, input, isTyping, apiKey, inflight, lastResult>>

CloseChatCancels ==
    /\ isOpen
    /\ isOpen' = FALSE
    /\ lastEvent' = "close"
    /\ isTyping' = FALSE
    /\ inflight' = <<>>
    /\ UNCHANGED <<messages, input, apiKey, lastResult>>

\* line 149: onClick={() => setIsOpen(false)}, rendered in the open panel
CloseChat ==
    /\ isOpen
    /\ isOpen' = FALSE
    /\ lastEvent' = "close"
    /\ UNCHANGED <<messages, input, isTyping, apiKey, inflight, lastResult>>

NextChat ==
    \/ HandleSend /\ UNCHANGED <<galleryVars, contactVars>>
    \/ GenerateSettles /\ UNCHANGED <<galleryVars, contactVars>>
    \/ SetInput /\ UNCHANGED <<galleryVars, contactVars>>
    \/ ToggleOpen /\ UNCHANGED <<galleryVars, contactVars>>
    \/ CloseChat /\ UNCHANGED <<galleryVars, contactVars>>

-----------------------------------------------------------------------------
(* Projects: strings *)

\* String.prototype.includes
Includes(s, sub) ==
    \E i \in 0..(Len(s) - Len(sub)) : SubSeq(s, i + 1, i + Len(sub)) = sub

\* String.prototype.replace with a string pattern: the first occurrence
Replace(s, pat, rep) ==
    IF Includes(s, pat)
    THEN LET i == CHOOSE k \in 0..(Len(s) - Len(pat)) :
                    /\ SubSeq(s, k + 1, k + Len(pat)) = pat
                    /\ \A j \in 0..(k - 1) : SubSeq(s, j + 1, j + Len(pat)) # pat
         IN  SubSeq(s, 1, i) \o rep \o SubSeq(s, i + Len(pat) + 1, Len(s))
    ELSE s

LowerCase ==
  <<"a","b","c","d","e","f","g","h","i","j","k","l","m","n","o","p","q","r",
    "s","t","u","v","w","x","y","z">>

UpperCase ==
  <<"A","B","C","D","E","F","G","H","I","J","K","L","M","N","O","P","Q","R",
    "S","T","U","V","W","X","Y","Z">>

\* String.prototype.toUpperCase of one character
Upper(c) ==
    IF \E k \in 1..Len(LowerCase) : LowerCase[k] = c
    THEN UpperCase[CHOOSE k \in 1..Len(LowerCase) : LowerCase[k] = c]
    ELSE c

Min(a, b) == IF a <= b THEN a ELSE b

-----------------------------------------------------------------------------
(* Projects: literals *)

\* line 432: the account handle
Handle == <<"C","h","r","i","s","t","T","e","c","h">>

\* line 446: 'https://github.com/'
GitHubPrefix ==
  <<"h","t","t","p","s",":","/","/","g","i","t","h","u","b",".","c","o","m",
    "/">>

\* line 446: 'https://opengraph.githubassets.com/1/'
OpenGraphPrefix ==
  <<"h","t","t","p","s",":","/","/","o","p","e","n","g","r","a","p","h",".",
    "g","i","t","h","u","b","a","s","s","e","t","s",".","c","o","m","/","1",
    "/">>

\* line 441: .slice(0, 6)
MaxCards == 6

\* line 447: .slice(0, 4)
MaxTags == 4

OpenSource == <<"O","p","e","n"," ","S","o","u","r","c","e">>

CodeTag == <<"C","o","d","e">>

GenericDescription ==
  <<"A","n"," ","i","n","n","o","v","a","t","i","v","e"," ","p","r","o","j",
    "e","c","t"," ","s","h","o","w","c","a","s","i","n","g"," ","t","e","c",
    "h","n","i","c","a","l"," ","e","x","c","e","l","l","e","n","c","e",".">>

LoadError == "Unable to load projects"

-----------------------------------------------------------------------------
(* Projects: the batches a response carries *)

\* qualifying repositories of the catalogue
MaxGood == 7

Letters == <<"a","b","c","d","e","f","g","h","i","j","k","l">>

TopicPool ==
    << <<"m","l">>, <<"c","v">>, <<"r","o","s">>, <<"p","y">>, <<"a","i">> >>

\* a GitHubRepo (lines 41-50); updated_at is left out, see ToProject
Repo(name, description, homepage, topics, stars, language) ==
    [ name |-> name,
      description |-> description,
      html_url |-> GitHubPrefix \o Handle \o <<"/">> \o name,
      homepage |-> homepage,
      topics |-> topics,
      stargazers_count |-> stars,
      language |-> language ]

Python == <<"P","y","t","h","o","n">>

\* the i-th documented project: 0 to 5 topics, homepage null, '' or set,
\* language null or set
Good(i) ==
    Repo(<<"r", "-", Letters[i]>>,
         {<<"d", Letters[i]>>},
         CASE i % 3 = 0 -> {}
           [] i % 3 = 1 -> {<<>>}
           [] OTHER -> {<<"h", ".", "i", "o", "/", Letters[i]>>},
         SubSeq(TopicPool, 1, (i - 1) % 6),
         i,
         IF i % 2 = 0 THEN {} ELSE {Python})

\* the profile repository, a fork named after the account, and
\* repositories whose description is '' or null
Profile == Repo(Handle, {<<"p","r","o","f","i","l","e">>}, {}, <<>>, 0, {})

RoboArm == Repo(<<"r","o","b","o","-","a","r","m">>, {<<>>}, {}, <<>>, 0, {})

VisionApp ==
    Repo(<<"v","i","s","i","o","n","-","a","p","p">>,
         {<<"C","V"," ","p","i","p","e","l","i","n","e">>},
         {}, << <<"c","v">>, <<"p","y","t","h","o","n">> >>, 0, {})

Undescribed == Repo(<<"w","i","p">>, {}, {}, <<TopicPool[1]>>, 3, {Python})

Mirror ==
    Repo(<<"m","y","-">> \o Handle \o <<"-","d","o","c","s">>,
         {<<"d","o","c","s">>}, {}, <<>>, 1, {})

\* the repositories of the account, most recently updated first
Catalogue ==
    <<Good(1), Profile, Good(2), RoboArm, Good(3), Undescribed, Good(4), Mirror>>
    \o [i \in 1..(MaxGood - 4) |-> Good(i + 4)]

\* the batch of the end-to-end scenario, each record completed with the
\* fields the scenario leaves out
ScenarioBatch == <<Profile, RoboArm, VisionApp>>

\* a documented project with no topics, no language and no homepage
Bare == Repo(<<"b","a","r","e">>, {<<"x">>}, {}, <<>>, 0, {})

\* projects with no topic, one topic and a homepage, and five topics
TagBatch == <<Bare, Good(2), Good(6)>>

\* a response carries a run of the catalogue (possibly empty), the
\* scenario batch or the tag batch
Batches ==
    { SubSeq(Catalogue, i, j) : i \in 1..(Len(Catalogue) + 1), j \in 0..Len(Catalogue) }
    \cup { ScenarioBatch, TagBatch }

-----------------------------------------------------------------------------
(* Projects: fetchGitHubProjects, lines 415-462 *)

IsValidRepoAnyName(repo) == Truthy(repo.description)

IsValidRepoAnyDescription(repo) == ~Includes(repo.name, Handle)

\* lines 431-434: the filter predicate
IsValidRepo(repo) ==
    /\ ~Includes(repo.name, Handle)
    /\ Truthy(repo.description)

ValidRepos(batch) == SelectSeq(batch, IsValidRepo)

\* all orders of the positions of a set
RECURSIVE Orders(_)
Orders(S) ==
    IF S = {}
    THEN { <<>> }
    ELSE UNION { { <<k>> \o t : t \in Orders(S \ {k}) } : k \in S }

\* all orders of a sequence
Permutations(s) ==
    { [i \in 1..Len(s) |-> s[p[i]]] : p \in Orders(1..Len(s)) }

\* line 437: sort(() => Math.random() - 0.5) leaves some order of the
\* same elements
Shuffles(s) == Permutations(s)

TopAll(s) == s

\* line 441: .slice(0, 6)
TopSix(s) == SubSeq(s, 1, Min(Len(s), MaxCards))

\* line 443: split('-'), capitalise each word, join(' ')
Title(name) ==
    [i \in 1..Len(name) |->
        IF name[i] = "-" THEN " "
        ELSE IF i = 1 \/ name[i - 1] = "-" THEN Upper(name[i])
        ELSE name[i]]

\* a || b on optional strings
OrElse(opt, default) == IF Truthy(opt) THEN CHOOSE s \in opt : TRUE ELSE default

TagsAllTopics(repo) ==
    IF Len(repo.topics) > 0 THEN repo.topics ELSE <<OrElse(repo.language, CodeTag)>>

\* line 447
Tags(repo) ==
    IF Len(repo.topics) > 0
    THEN SubSeq(repo.topics, 1, Min(Len(repo.topics), MaxTags))
    ELSE <<OrElse(repo.language, CodeTag)>>

\* lines 442-453: the card of a repository; updated (a locale-formatted
\* date, line 452) is left out
ToProject(repo) ==
    [ title |-> Title(repo.name),
      category |-> OrElse(repo.language, OpenSource),
      description |-> OrElse(repo.description, GenericDescription),
      image |-> OpenGraphPrefix \o Replace(repo.html_url, GitHubPrefix, <<>>),
      tags |-> Tags(repo),
      link |-> OrElse(repo.homepage, repo.html_url),
      github |-> repo.html_url,
      stars |-> repo.stargazers_count,
      language |-> repo.language ]

MapProjects(s) == [i \in 1..Len(s) |-> ToProject(s[i])]

LoadFailsAndRetries ==
    /\ error' = LoadError
    /\ loading' = FALSE
    /\ galleryPc' = "mounted"
    /\ UNCHANGED <<projects, repos, settled, fetchCount>>

\* lines 457-461: the catch block
LoadFails ==
    /\ error' = LoadError
    /\ loading' = FALSE
    /\ galleryPc' = "done"
    /\ UNCHANGED <<projects, repos, settled, fetchCount>>

\* lines 414-421 and 464: the effect runs once after the first render and
\* issues the GET
GalleryMount ==
    /\ galleryPc = "mounted"
    /\ galleryPc' = "fetch"
    /\ fetchCount' = fetchCount + 1
    /\ UNCHANGED <<projects, loading, error, repos, settled>>

\* line 421: the promise of fetch settles: it rejects, or delivers a
\* response with a non-success or a success status
FetchSettles ==
    /\ galleryPc = "fetch"
    /\ galleryPc' = "fetched"
    /\ settled' \in {"reject", "notok", "ok"}
    /\ UNCHANGED <<projects, loading, error, repos, fetchCount>>

\* lines 421-428: the continuation; a rejection or a non-success status
\* reaches the catch block, otherwise response.json() is awaited
AfterFetch ==
    /\ galleryPc = "fetched"
    /\ IF settled = "ok"
       THEN /\ galleryPc' = "json"
            /\ UNCHANGED <<projects, loading, error, repos, settled, fetchCount>>
       ELSE LoadFails

\* line 428: the promise of response.json() settles: it rejects (the body
\* does not parse), or delivers the batch
JsonSettles ==
    /\ galleryPc = "json"
    /\ galleryPc' = "parsed"
    /\ \/ settled' = "badbody" /\ repos' = repos
       \/ settled' = "body" /\ repos' \in Batches
    /\ UNCHANGED <<projects, loading, error, fetchCount>>

\* lines 428-461: the continuation: filter, shuffle, slice, map, setProjects
AfterJson ==
    /\ galleryPc = "parsed"
    /\ IF settled = "body"
       THEN \E shuffled \in Shuffles(ValidRepos(repos)) :
                /\ projects' = MapProjects(TopSix(shuffled))
                /\ loading' = FALSE
                /\ galleryPc' = "done"
                /\ UNCHANGED <<error, repos, settled, fetchCount>>
       ELSE LoadFails

NextGallery ==
    \/ GalleryMount /\ UNCHANGED <<chatVars, contactVars>>
    \/ FetchSettles /\ UNCHANGED <<chatVars, contactVars>>
    \/ AfterFetch /\ UNCHANGED <<chatVars, contactVars>>
    \/ JsonSettles /\ UNCHANGED <<chatVars, contactVars>>
    \/ AfterJson /\ UNCHANGED <<chatVars, contactVars>>

-----------------------------------------------------------------------------
(* Contact: literals and inputs *)

\* line 602
GenericErrorText ==
  <<"S","o","m","e","t","h","i","n","g"," ","w","e","n","t"," ","w","r","o",
    "n","g","."," ","P","l","e","a","s","e"," ","t","r","y"," ","a","g","a",
    "i","n",".">>

\* line 606
NetworkErrorText ==
  <<"N","e","t","w","o","r","k"," ","e","r","r","o","r","."," ","P","l","e",
    "a","s","e"," ","c","h","e","c","k"," ","y","o","u","r"," ","c","o","n",
    "n","e","c","t","i","o","n"," ","a","n","d"," ","t","r","y"," ","a","g",
    "a","i","n",".">>

\* line 581
PlaceholderKey ==
  <<"Y","O","U","R","_","A","C","C","E","S","S","_","K","E","Y","_","H","E",
    "R","E">>

\* POSTs in flight at once, where submit events are not held back
MaxPosts == 2

\* a form as reset() leaves it
EmptyFields == [name |-> <<>>, email |-> <<>>, message |-> <<>>]

\* values the user leaves in the inputs
FieldTexts ==
    [ name |-> { <<>>, <<"n">> },
      email |-> { <<>>, <<"a">>, <<"a","@","b">> },
      message |-> { <<>>, <<"m">> } ]

\* values of import.meta.env.VITE_WEB3FORMS_KEY: undefined and a key
RelayKeys == { {}, {<<"w">>} }

RelayMessage == <<"X">>

\* how an awaited POST ends: fetch rejects, response.json() rejects, or a
\* body { success, message? } is delivered
Responses ==
    { [kind |-> "network", success |-> FALSE, message |-> {}],
      [kind |-> "parse", success |-> FALSE, message |-> {}] }
    \cup { [kind |-> "data", success |-> ok, message |-> m] :
             ok \in BOOLEAN, m \in { {}, {<<>>}, {RelayMessage} } }

NoResponse == [kind |-> "none", success |-> FALSE, message |-> {}]

\* the POSTs in flight are a bag: each payload with the number of pending
\* requests that carry it
NoPosts == [p \in {} |-> 0]

\* line 588: one more request with payload p
Issue(b, p) ==
    [q \in DOMAIN b \cup {p} |->
        (IF q \in DOMAIN b THEN b[q] ELSE 0) + (IF q = p THEN 1 ELSE 0)]

\* one request with payload p settled
Settle(b, p) ==
    [q \in {x \in DOMAIN b : x # p \/ b[x] > 1} |->
        IF q = p THEN b[q] - 1 ELSE b[q]]

RECURSIVE CountIn(_, _)
CountIn(b, ps) ==
    IF ps = {} THEN 0
    ELSE LET p == CHOOSE x \in ps : TRUE
         IN  b[p] + CountIn(b, ps \ {p})

\* the number of requests in flight
InFlight(b) == CountIn(b, DOMAIN b)

-----------------------------------------------------------------------------
(* Contact: handleSubmit, lines 572-609, and the form, lines 662-727 *)

\* type="email": one '@' between a non-empty local part and a non-empty
\* domain, no white space
ValidEmail(s) ==
    /\ \E i \in 2..(Len(s) - 1) :
          /\ s[i] = "@"
          /\ \A j \in 1..Len(s) : j # i => s[j] # "@"
    /\ \A j \in 1..Len(s) : s[j] \notin WhiteSpace

\* lines 683, 693, 694, 704: the constraints the browser checks before it
\* fires submit
FieldsValid(f) == f.name # <<>> /\ ValidEmail(f.email) /\ f.message # <<>>

\* lines 577-585: the FormData of the request
Payload(f, key) ==
    [ name |-> f.name,
      email |-> f.email,
      message |-> f.message,
      access_key |-> OrElse(key, PlaceholderKey) ]

HandleSubmitGuarded ==
    /\ formEvent' = "submit"
    /\ IF formState = "loading"
       THEN UNCHANGED <<formState, errorMessage, posts>>
       ELSE /\ formState' = "loading"
            /\ errorMessage' = <<>>
            /\ posts' = Issue(posts, Payload(fields, relayKey))
    /\ UNCHANGED <<fields, relayKey, formResult>>

HandleSubmitKeepsError ==
    /\ formEvent' = "submit"
    /\ formState' = "loading"
    /\ errorMessage' = errorMessage
    /\ posts' = Issue(posts, Payload(fields, relayKey))
    /\ UNCHANGED <<fields, relayKey, formResult>>

\* lines 572-591: handleSubmit up to the await
HandleSubmit ==
    /\ formEvent' = "submit"
    /\ formState' = "loading"
    /\ errorMessage' = <<>>
    /\ posts' = Issue(posts, Payload(fields, relayKey))
    /\ UNCHANGED <<fields, relayKey, formResult>>

StateAfterIdleOnFailure(r) ==
    IF r.kind = "data" /\ r.success THEN "success" ELSE "idle"

\* lines 595-605: the form state a settled POST leaves
StateAfter(r) ==
    IF r.kind = "data" /\ r.success THEN "success" ELSE "error"

ErrorTextNetworkOnly(r, old) ==
    IF r.kind = "data" /\ r.success THEN old
    ELSE IF r.kind = "data" THEN OrElse(r.message, NetworkErrorText)
    ELSE NetworkErrorText

\* lines 602 and 606: the error message a settled POST leaves
ErrorText(r, old) ==
    IF r.kind = "data" /\ r.success THEN old
    ELSE IF r.kind = "data" THEN OrElse(r.message, GenericErrorText)
    ELSE NetworkErrorText

FieldsAfterAlwaysReset(r, state, f) == EmptyFields

\* lines 597-599: formRef.current.reset() on success, when the form is
\* rendered
FieldsAfter(r, state, f) ==
    IF r.kind = "data" /\ r.success /\ state # "success" THEN EmptyFields ELSE f

\* the submit control, lines 716-719, is disabled while loading, and the
\* form is rendered unless the state is success, line 662
SubmitClick ==
    /\ formState \notin {"loading", "success"}
    /\ FieldsValid(fields)
    /\ HandleSubmit

\* a submit event delivered to the rendered form whatever the state of the
\* control
SubmitEvent ==
    /\ formState # "success"
    /\ InFlight(posts) < MaxPosts
    /\ HandleSubmit

\* lines 588-608: the continuation of handleSubmit once the POST settled
RelayResponds ==
    \E p \in DOMAIN posts, r \in Responses :
        /\ formEvent' = "respond"
        /\ formResult' = r
        /\ posts' = Settle(posts, p)
        /\ formState' = StateAfter(r)
        /\ errorMessage' = ErrorText(r, errorMessage)
        /\ fields' = FieldsAfter(r, formState, fields)
        /\ UNCHANGED relayKey

\* line 670: onClick={() => setFormState('idle')}
ResetForm ==
    /\ formState = "success"
    /\ formState' = "idle"
    /\ formEvent' = "reset"
    /\ UNCHANGED <<errorMessage, fields, relayKey, posts, formResult>>

\* the user types into an input of the rendered form
EditField ==
    \E n \in {"name", "email", "message"} :
        \E v \in FieldTexts[n] :
            /\ formState # "success"
            /\ fields' = [fields EXCEPT ![n] = v]
            /\ formEvent' = "edit"
            /\ UNCHANGED <<formState, errorMessage, relayKey, posts, formResult>>

NextContact ==
    \/ SubmitClick /\ UNCHANGED <<chatVars, galleryVars>>
    \/ RelayResponds /\ UNCHANGED <<chatVars, galleryVars>>
    \/ ResetForm /\ UNCHANGED <<chatVars, galleryVars>>
    \/ EditField /\ UNCHANGED <<chatVars, galleryVars>>

NextContactEvents ==
    \/ SubmitEvent /\ UNCHANGED <<chatVars, galleryVars>>
    \/ RelayResponds /\ UNCHANGED <<chatVars, galleryVars>>
    \/ ResetForm /\ UNCHANGED <<chatVars, galleryVars>>
    \/ EditField /\ UNCHANGED <<chatVars, galleryVars>>

-----------------------------------------------------------------------------
(* Specifications: one per component, the others at rest *)

\* the state after the first render: lines 89-94 and 410-412; the build
\* fixes process.env.API_KEY
Init ==
    /\ isOpen = FALSE
    /\ messages = <<SeedMessage>>
    /\ input = <<>>
    /\ isTyping = FALSE
    /\ apiKey \in ApiKeys
    /\ inflight = <<>>
    /\ lastEvent = "mount"
    /\ lastResult = NoResult
    /\ projects = <<>>
    /\ loading = TRUE
    /\ error = ""
    /\ repos = <<>>
    /\ settled = "none"
    /\ galleryPc = "mounted"
    /\ fetchCount = 0
    /\ formState = "idle"
    /\ errorMessage = <<>>
    /\ fields = EmptyFields
    /\ relayKey = {}
    /\ posts = NoPosts
    /\ formEvent = "mount"
    /\ formResult = NoResponse

\* the same, in a build with no API_KEY
InitNoKey ==
    /\ isOpen = FALSE
    /\ messages = <<SeedMessage>>
    /\ input = <<>>
    /\ isTyping = FALSE
    /\ apiKey = {}
    /\ inflight = <<>>
    /\ lastEvent = "mount"
    /\ lastResult = NoResult
    /\ projects = <<>>
    /\ loading = TRUE
    /\ error = ""
    /\ repos = <<>>
    /\ settled = "none"
    /\ galleryPc = "mounted"
    /\ fetchCount = 0
    /\ formState = "idle"
    /\ errorMessage = <<>>
    /\ fields = EmptyFields
    /\ relayKey = {}
    /\ posts = NoPosts
    /\ formEvent = "mount"
    /\ formResult = NoResponse

SpecChat == Init /\ [][NextChat]_vars

SpecGallery == InitNoKey /\ [][NextGallery]_vars

\* the state after the first render, for each build of the relay key
InitContact ==
    /\ isOpen = FALSE
    /\ messages = <<SeedMessage>>
    /\ input = <<>>
    /\ isTyping = FALSE
    /\ apiKey = {}
    /\ inflight = <<>>
    /\ lastEvent = "mount"
    /\ lastResult = NoResult
    /\ projects = <<>>
    /\ loading = TRUE
    /\ error = ""
    /\ repos = <<>>
    /\ settled = "none"
    /\ galleryPc = "mounted"
    /\ fetchCount = 0
    /\ formState = "idle"
    /\ errorMessage = <<>>
    /\ fields = EmptyFields
    /\ relayKey \in RelayKeys
    /\ posts = NoPosts
    /\ formEvent = "mount"
    /\ formResult = NoResponse

\* the form driven through its controls
SpecContact == InitContact /\ [][NextContact]_vars

\* the form with submit events delivered whenever it is rendered
SpecContactEvents == InitContact /\ [][NextContactEvents]_vars

\* a component is at rest while nothing of it has run since the first render
ChatAtRest ==
    /\ isOpen = FALSE
    /\ messages = <<SeedMessage>>
    /\ input = <<>>
    /\ isTyping = FALSE
    /\ inflight = <<>>
    /\ lastEvent = "mount"
    /\ lastResult = NoResult

GalleryAtRest ==
    /\ projects = <<>>
    /\ loading = TRUE
    /\ error = ""
    /\ repos = <<>>
    /\ settled = "none"
    /\ galleryPc = "mounted"
    /\ fetchCount = 0

ContactAtRest ==
    /\ formState = "idle"
    /\ errorMessage = <<>>
    /\ fields = EmptyFields
    /\ posts = NoPosts
    /\ formEvent = "mount"
    /\ formResult = NoResponse

\* the page: the three components side by side.  They share no state, so
\* each is followed with the other two at rest.
NextPage ==
    \/ NextChat /\ GalleryAtRest /\ ContactAtRest
    \/ NextGallery /\ ChatAtRest /\ ContactAtRest
    \/ NextContact /\ ChatAtRest /\ GalleryAtRest

\* the state after the first render of a build with an API key
InitPage ==
    /\ isOpen = FALSE
    /\ messages = <<SeedMessage>>
    /\ input = <<>>
    /\ isTyping = FALSE
    /\ apiKey = {<<"k">>}
    /\ inflight = <<>>
    /\ lastEvent = "mount"
    /\ lastResult = NoResult
    /\ projects = <<>>
    /\ loading = TRUE
    /\ error = ""
    /\ repos = <<>>
    /\ settled = "none"
    /\ galleryPc = "mounted"
    /\ fetchCount = 0
    /\ formState = "idle"
    /\ errorMessage = <<>>
    /\ fields = EmptyFields
    /\ relayKey = {}
    /\ posts = NoPosts
    /\ formEvent = "mount"
    /\ formResult = NoResponse

SpecPage == InitPage /\ [][NextPage]_vars

-----------------------------------------------------------------------------
(* AIChat: properties *)

AllBlank(s) == \A i \in 1..Len(s) : s[i] \in WhiteSpace

FallbackMessage == Msg("ai", ConnectionText)

\* this step is a handleSend that passes the guard of line 104
AcceptedSend == lastEvent' = "handleSend" /\ ~isTyping /\ ~AllBlank(input)

\* this step is the continuation of a generateContent call that failed
FailedSettle == lastEvent' = "settle" /\ lastResult'.kind \in {"reject", "malformed"}

\* C1: at most one generation request is in flight at any time, and a
\* handleSend invoked while isTyping is set appends nothing to the
\* transcript and issues no request.
C1_OneRequestInFlight ==
    /\ [](Len(inflight) <= 1)
    /\ [][(lastEvent' = "handleSend" /\ isTyping)
            => (messages' = messages /\ inflight' = inflight /\ isTyping')]_vars

\* a submit of a non-blank input was made, and rejected, while a request was
\* pending
C1_Witness ==
    /\ lastEvent = "handleSend"
    /\ isTyping
    /\ ~AllBlank(input)
    /\ Len(inflight) = 1

\* C2: a generation call that fails (missing credential, rejected call,
\* malformed response) adds exactly one assistant message, the fixed
\* fallback; from the seeded transcript, sending "hello" with a failing call
\* ends with [seed, user:"hello", assistant:fallback].
C2_FailureAddsOneFallback ==
    /\ [][FailedSettle => messages' = Append(messages, FallbackMessage)]_vars
    /\ [][(AcceptedSend /\ ~Truthy(apiKey))
            => messages' = messages \o <<Msg("user", Trim(input)), FallbackMessage>>]_vars
    /\ []((/\ ~isTyping
           /\ Len(messages) \in 2..3
           /\ messages[2] = Msg("user", Hello)
           /\ (~Truthy(apiKey) \/ lastResult.kind \in {"reject", "malformed"}))
          => messages = <<SeedMessage, Msg("user", Hello), FallbackMessage>>)

C2_Witness ==
    /\ lastEvent = "settle"
    /\ lastResult.kind = "reject"
    /\ messages = <<SeedMessage, Msg("user", Hello), FallbackMessage>>

\* C3: a submit with an empty or whitespace-only input changes nothing: the
\* transcript is unchanged, pending is not entered, no request is issued.
C3_BlankSubmitIsNoOp ==
    [][(lastEvent' = "handleSend" /\ AllBlank(input))
         => UNCHANGED <<messages, isTyping, inflight, input>>]_vars

\* a whitespace-only input was submitted while nothing was pending
C3_Witness ==
    /\ lastEvent = "handleSend"
    /\ input = <<" ", "\t">>
    /\ ~isTyping

\* C4: pending is cleared when the request of an accepted submit settles,
\* whatever the outcome; pending is set only while a request is unsettled,
\* and a chat that is not pending accepts a non-blank submit.
C4_PendingCleared ==
    /\ [][lastEvent' = "settle" => ~isTyping']_vars
    /\ [](isTyping <=> inflight # <<>>)
    /\ [][AcceptedSend => Len(messages') > Len(messages)]_vars

\* after a call that failed, a second submit was accepted
C4_Witness ==
    /\ lastResult.kind = "malformed"
    /\ lastEvent = "handleSend"
    /\ Len(messages) = 4
    /\ isTyping

\* C5: the transcript starts with the seed and only grows at its end; the
\* user's message is appended by the submit itself, and the reply is
\* appended directly after the user message it answers.
C5_AppendOnlyOrdered ==
    /\ [](messages[1] = SeedMessage)
    /\ [][IsPrefix(messages, messages')]_vars
    /\ [][AcceptedSend
            => IsPrefix(Append(messages, Msg("user", Trim(input))), messages')]_vars
    /\ [][lastEvent' = "settle"
            => /\ inflight = <<Last(messages).text>>
               /\ Last(messages).role = "user"
               /\ Len(messages') = Len(messages) + 1
               /\ Last(messages').role = "ai"]_vars

\* two exchanges are complete
C5_Witness ==
    /\ Len(messages) = 5
    /\ ~isTyping
    /\ lastResult.kind = "text"
    /\ messages[4].role = "user"

\* C6: with no credential no generation request is ever issued, and the
\* submit leaves what a rejected call leaves: the user's message followed by
\* the fixed fallback, pending cleared.
C6_MissingCredential ==
    /\ [](~Truthy(apiKey) => (inflight = <<>> /\ ~isTyping /\ lastResult = NoResult))
    /\ [][(AcceptedSend /\ ~Truthy(apiKey))
            => /\ inflight' = <<>>
               /\ ~isTyping'
               /\ Len(messages') = Len(messages) + 2
               /\ messages'[Len(messages) + 1].role = "user"
               /\ Last(messages') = FallbackMessage]_vars
    /\ [][(lastEvent' = "settle" /\ lastResult'.kind = "reject")
            => /\ inflight' = <<>>
               /\ ~isTyping'
               /\ Len(messages') = Len(messages) + 1
               /\ Last(messages).role = "user"
               /\ Last(messages') = FallbackMessage]_vars

C6_Witness ==
    /\ ~Truthy(apiKey)
    /\ lastEvent = "handleSend"
    /\ messages = <<SeedMessage, Msg("user", Hello), FallbackMessage>>

\* C7: a call that returns a non-empty text adds exactly one assistant
\* message with that text; a call that returns the empty text adds exactly
\* one assistant message with the fixed apology, never an empty message.
C7_ReplyOrApology ==
    [][(lastEvent' = "settle" /\ lastResult'.kind = "text")
         => /\ Len(messages') = Len(messages) + 1
            /\ SubSeq(messages', 1, Len(messages)) = messages
            /\ Last(messages').role = "ai"
            /\ Last(messages').text # <<>>
            /\ (lastResult'.text # <<>> => Last(messages').text = lastResult'.text)
            /\ (lastResult'.text = <<>> => Last(messages').text = GlitchText)]_vars

\* a returned text, then an empty text
C7_Witness ==
    /\ lastEvent = "settle"
    /\ lastResult = [kind |-> "text", text |-> <<>>]
    /\ Len(messages) = 5
    /\ messages[3] = Msg("ai", <<"o","k">>)
    /\ messages[5] = Msg("ai", GlitchText)

-----------------------------------------------------------------------------
(* Projects: properties *)

\* positions of the batch whose repository is documented and is not named
\* after the account
Qualifying(batch) ==
    { k \in 1..Len(batch) :
        /\ batch[k].description # {}
        /\ batch[k].description # {<<>>}
        /\ \A i \in 1..(Len(batch[k].name) - Len(Handle) + 1) :
              SubSeq(batch[k].name, i, i + Len(Handle) - 1) # Handle }

\* the positions of the batch a card comes from
SourcesOf(card, batch) == { k \in 1..Len(batch) : batch[k].html_url = card.github }

Loaded == galleryPc = "done" /\ error = ""

\* C8 as stated: the scenario batch yields zero cards.
C8_ScenarioYieldsNoCard ==
    (Loaded /\ repos = ScenarioBatch) => Len(projects) = 0

\* C8, amended: the scenario batch yields exactly one card, the card of
\* vision-app with tags cv and python; ChristTech and robo-arm yield none.
C8_ScenarioYieldsVisionApp ==
    (Loaded /\ repos = ScenarioBatch)
        => /\ Len(projects) = 1
           /\ SourcesOf(projects[1], repos) = {3}
           /\ projects[1].description = <<"C","V"," ","p","i","p","e","l","i","n","e">>
           /\ projects[1].tags = << <<"c","v">>, <<"p","y","t","h","o","n">> >>

C8_Witness ==
    /\ Loaded
    /\ repos = ScenarioBatch
    /\ Len(projects) = 1

\* C9: the gallery never holds more than six cards; after a successful load
\* it holds min(6, number of qualifying repositories) cards, each derived
\* from a qualifying repository of the batch, no two from the same one.
C9_AtMostSixCards ==
    /\ Len(projects) <= 6
    /\ Loaded =>
        /\ Len(projects) = Min(6, Cardinality(Qualifying(repos)))
        /\ \A i \in 1..Len(projects) :
              \E k \in Qualifying(repos) : SourcesOf(projects[i], repos) = {k}
        /\ \A i, j \in 1..Len(projects) :
              i # j => projects[i].github # projects[j].github

\* more than six repositories of the batch qualify
C9_Witness ==
    /\ Loaded
    /\ Cardinality(Qualifying(repos)) > 6
    /\ Len(projects) = 6

\* C10: no card is derived from a repository whose description is empty or
\* absent, nor from one whose name contains the account handle.
C10_NoUndocumentedNoProfile ==
    \A i \in 1..Len(projects) :
        \A k \in SourcesOf(projects[i], repos) :
            /\ repos[k].description \notin { {}, {<<>>} }
            /\ ~Includes(repos[k].name, Handle)
            /\ projects[i].description # GenericDescription

\* a batch with an empty description, an absent description, the profile
\* repository and a fork named after the account, and some card
C10_Witness ==
    /\ Loaded
    /\ Len(projects) > 0
    /\ \E k \in 1..Len(repos) : repos[k].description = {}
    /\ \E k \in 1..Len(repos) : repos[k].description = {<<>>}
    /\ \E k \in 1..Len(repos) : repos[k].name = Handle
    /\ \E k \in 1..Len(repos) : repos[k].name # Handle /\ Includes(repos[k].name, Handle)

\* C11: a mount issues exactly one GET; the gallery starts loading and
\* leaves loading once, to ready (projects set, no error) or to error (the
\* fetch rejected, a non-success status, or the body failed to process);
\* both are terminal, nothing is retried, and an error leaves no card.
C11_OneLoadOneOutcome ==
    /\ [](fetchCount = IF galleryPc = "mounted" THEN 0 ELSE 1)
    /\ [](loading <=> galleryPc # "done")
    /\ [](loading => (error = "" /\ projects = <<>>))
    /\ [](~loading =>
            \/ (error = "" /\ settled = "body")
            \/ (/\ error = "Unable to load projects"
                /\ projects = <<>>
                /\ settled \in {"reject", "notok", "badbody"}))
    /\ [][~loading => UNCHANGED galleryVars]_vars

\* a body that failed to parse ended the load in error
C11_Witness ==
    /\ ~loading
    /\ settled = "badbody"
    /\ error # ""
    /\ fetchCount = 1

\* the image URL of a canonical URL
ImageOf(url) == OpenGraphPrefix \o SubSeq(url, Len(GitHubPrefix) + 1, Len(url))

Unset(opt) == opt \in { {}, {<<>>} }

\* C17: a card's tags are the first four topics in order when the
\* repository has a topic, else the one-element list of the language (or
\* 'Code' when there is none); its link is the homepage when set, else the
\* canonical URL; its image URL is a function of the canonical URL alone.
C17_CardMapping ==
    \A i \in 1..Len(projects) :
        \A k \in SourcesOf(projects[i], repos) :
            LET r == repos[k]
                c == projects[i]
            IN  /\ Len(r.topics) >= 1 =>
                      /\ Len(c.tags) = Min(4, Len(r.topics))
                      /\ \A j \in 1..Len(c.tags) : c.tags[j] = r.topics[j]
                /\ Len(r.topics) = 0 =>
                      /\ Len(c.tags) = 1
                      /\ (Unset(r.language) => c.tags[1] = <<"C","o","d","e">>)
                      /\ (~Unset(r.language) => r.language = {c.tags[1]})
                /\ (Unset(r.homepage) => c.link = r.html_url)
                /\ (~Unset(r.homepage) => r.homepage = {c.link})
                /\ c.image = ImageOf(r.html_url)

\* cards of a project with no topic and no language, of one with a
\* homepage, and of one with five topics
C17_Witness ==
    /\ Loaded
    /\ repos = TagBatch
    /\ Len(projects) = 3

-----------------------------------------------------------------------------
(* AIChat: implicit properties *)

\* C18: the roles of the transcript alternate ai, user, ai, ... from the
\* seed on; the chat is pending exactly when the last message is a user
\* message, and the transcript length is odd exactly when it is not pending.
C18_RolesAlternate ==
    /\ \A i \in 1..Len(messages) :
          messages[i].role = IF i % 2 = 1 THEN "ai" ELSE "user"
    /\ isTyping <=> Last(messages).role = "user"
    /\ (Len(messages) % 2 = 1) <=> ~isTyping

\* a second user message awaits its reply
C18_Witness ==
    /\ Len(messages) = 4
    /\ isTyping
    /\ Len(inflight) = 1

\* C20: opening or closing the panel changes the open flag only; a reply
\* that settles while the panel is closed is appended and clears pending.
C20_PanelFrame ==
    /\ [][lastEvent' \in {"toggle", "close"}
            => /\ isOpen' # isOpen
               /\ UNCHANGED <<messages, input, isTyping, inflight>>]_vars
    /\ [][(lastEvent' = "settle" /\ ~isOpen)
            => /\ Len(messages') = Len(messages) + 1
               /\ SubSeq(messages', 1, Len(messages)) = messages
               /\ Last(messages').role = "ai"
               /\ ~isTyping'
               /\ ~isOpen']_vars

\* a reply settled after the panel had been closed on a pending request
C20_Witness ==
    /\ lastEvent = "settle"
    /\ ~isOpen
    /\ ~isTyping
    /\ lastResult.kind = "text"
    /\ Len(messages) = 3

-----------------------------------------------------------------------------
(* Contact form *)

\* lines 710-714: the error text the form shows
DisplayedError == IF formState = "error" THEN errorMessage ELSE <<>>

\* a settled POST that delivered a body
Answered(r) == r.kind = "data"

\* C12: the form state changes only idle -> loading and error -> loading by
\* a submit, loading -> success and loading -> error by a response, and
\* success -> idle by the button of the confirmation panel; success is left
\* by that button alone, and a request is issued only by a submit, one per
\* submit.
C12_FormTransitions ==
    /\ [][formState' # formState =>
            \/ /\ formState \in {"idle", "error"}
               /\ formState' = "loading"
               /\ formEvent' = "submit"
            \/ /\ formState = "loading"
               /\ formState' \in {"success", "error"}
               /\ formEvent' = "respond"
            \/ /\ formState = "success"
               /\ formState' = "idle"
               /\ formEvent' = "reset"]_vars
    /\ [][formState = "success" /\ formEvent' # "reset"
            => formState' = "success"]_vars
    /\ [][InFlight(posts') > InFlight(posts) \/ formEvent' = "submit"
            => /\ formEvent' = "submit"
               /\ posts' = Issue(posts, Payload(fields, relayKey))]_vars
    /\ [][formEvent' # "submit" /\ posts' # posts
            => /\ formEvent' = "respond"
               /\ InFlight(posts') = InFlight(posts) - 1]_vars

\* a second submit, made from the error state
C12_Witness ==
    /\ formState = "loading"
    /\ formEvent = "submit"
    /\ Answered(formResult)
    /\ ~formResult.success

\* C13: a POST answered { success: true } leaves the form in success with
\* every field empty; a POST answered { success: false, message: "X" }
\* leaves it in error, showing exactly "X", with every field as it was.
C13_RelayAnswer ==
    [][formEvent' = "respond" /\ Answered(formResult') =>
          IF formResult'.success
          THEN formState' = "success" /\ fields' = EmptyFields
          ELSE /\ formState' = "error"
               /\ fields' = fields
               /\ formResult'.message = {RelayMessage}
                     => DisplayedError' = RelayMessage]_vars

\* the relay refused a filled form with the message "X"
C13_Witness ==
    /\ formEvent = "respond"
    /\ formState = "error"
    /\ formResult.message = {RelayMessage}
    /\ DisplayedError = RelayMessage
    /\ FieldsValid(fields)

\* C14 as stated: every failure carries the relay's message when there is
\* one and the network-error string otherwise.
C14_NetworkTextUnlessMessage ==
    [][formEvent' = "respond" /\ formState' = "error" =>
          errorMessage' = OrElse(formResult'.message, NetworkErrorText)]_vars

\* C14: a failure reported by the relay carries the relay's message when
\* there is a non-empty one and 'Something went wrong. Please try again.'
\* otherwise; a network or parse error carries the network-error string.
C14_ErrorTextBySource ==
    /\ [](GenericErrorText # NetworkErrorText)
    /\ [][formEvent' = "respond" /\ formState' = "error" =>
            errorMessage' =
               IF Answered(formResult')
               THEN OrElse(formResult'.message, GenericErrorText)
               ELSE NetworkErrorText]_vars

\* the relay reported a failure without a message
C14_Witness ==
    /\ formEvent = "respond"
    /\ formState = "error"
    /\ Answered(formResult)
    /\ formResult.message = {}
    /\ errorMessage = GenericErrorText

\* the form state a settled POST calls for
Outcome(r) == IF Answered(r) /\ r.success THEN "success" ELSE "error"

\* C15: handleSubmit does not look at the form state: every submit event
\* delivered to the form, also while it is loading, issues one more POST, so
\* two POSTs can be in flight; every response sets the form state to its
\* own outcome, so the one that settles last decides the state the form
\* ends in.
C15_SecondSubmitSecondPost ==
    /\ [][formEvent' = "submit" =>
            /\ posts' = Issue(posts, Payload(fields, relayKey))
            /\ formState' = "loading"]_vars
    /\ [](formEvent = "respond" => formState = Outcome(formResult))
    /\ [][formEvent' = "respond" => formState' = Outcome(formResult')]_vars

\* a submit event delivered while loading left two POSTs in flight
C15_Witness ==
    /\ InFlight(posts) = 2
    /\ formState = "loading"
    /\ formEvent = "submit"

\* C19: the stored error message is non-empty exactly when the form state
\* is error, and every submit enters loading with the message cleared.
C19_ErrorIffErrorState ==
    /\ []((errorMessage # <<>>) <=> (formState = "error"))
    /\ [][formEvent' = "submit" =>
            formState' = "loading" /\ errorMessage' = <<>>]_vars

\* resubmitted after a network error: loading, with the message cleared
C19_Witness ==
    /\ formState = "loading"
    /\ formResult.kind = "network"
    /\ errorMessage = <<>>
    /\ InFlight(posts) = 1

-----------------------------------------------------------------------------
(* Outbound requests *)

\* C16: no step but the settling of its own request takes a component out
\* of its waiting state.  While the chat is pending exactly one generation
\* request is in flight and every other step, a submit included, leaves
\* the pending flag, the request and the transcript alone; the gallery
\* leaves loading only in the continuation of a settled promise; while the
\* form is loading one POST is in flight and every step but its response
\* leaves the form loading with the POST still awaited.
C16_OnlyResolutionEndsWaiting ==
    /\ [](isTyping => Len(inflight) = 1)
    /\ [][isTyping /\ lastEvent' # "settle" =>
            isTyping' /\ inflight' = inflight /\ messages' = messages]_vars
    /\ [][loading /\ galleryPc \in {"fetch", "json"} =>
            loading' /\ projects' = projects /\ error' = error]_vars
    /\ [][loading /\ ~loading' =>
            galleryPc \in {"fetched", "parsed"} /\ settled # "none"]_vars
    /\ [](formState = "loading" => InFlight(posts) = 1)
    /\ [][formState = "loading" /\ formEvent' # "respond" =>
            formState' = "loading" /\ posts' = posts]_vars

\* the panel was closed on a pending request, which is still pending
C16_Witness ==
    /\ isTyping
    /\ lastEvent = "close"
    /\ ~isOpen
    /\ Len(inflight) = 1
    /\ loading
    /\ formState = "idle"

====
